---- MODULE Spec2Model ----
(***************************************************************************)
(* Model of qiskit/providers/aer/noise/device/parameters.py: the five      *)
(* extraction functions over a backend-properties report, the item lookup  *)
(* and the three unit tables.                                              *)
(*                                                                         *)
(* Python objects are records whose DOMAIN is the set of attributes the    *)
(* object has, so hasattr(obj, a) is  a \in DOMAIN obj.  Numbers are exact *)
(* decimals m * 10^e kept in normal form (m carries no trailing zero);     *)
(* numpy.inf and None are records of their own.                            *)
(***************************************************************************)
EXTENDS Integers, Sequences, FiniteSets, TLC

VARIABLES properties, module_globals, calls

vars == <<properties, module_globals, calls>>

\* ---------------------------------------------------------------- bounds
MaxGates == 2
MaxQubits == 2

\* ------------------------------------------------------- python values
None == [none |-> TRUE]
inf == [inf |-> TRUE]
AttributeError == [raised |-> "AttributeError"]

IsInf(x) == x = inf

hasattr(obj, a) == a \in DOMAIN obj

RECURSIVE Norm(_)
Norm(x) ==
    IF x.m = 0 THEN [m |-> 0, e |-> 0]
    ELSE IF x.m % 10 = 0 THEN Norm([m |-> x.m \div 10, e |-> x.e + 1])
    ELSE x

Num(m, e) == Norm([m |-> m, e |-> e])

RECURSIVE Pow10(_)
Pow10(n) == IF n <= 0 THEN 1 ELSE 10 * Pow10(n - 1)

RECURSIVE Digits(_)
Digits(m) == IF m < 10 THEN 1 ELSE 1 + Digits(m \div 10)

\* a * b on floats; a product with inf is inf (every factor here is positive)
Mul(a, b) ==
    IF IsInf(a) \/ IsInf(b) THEN inf
    ELSE Norm([m |-> a.m * b.m, e |-> a.e + b.e])

\* a < b on floats (finite values are non-negative decimals in normal form)
Less(a, b) ==
    IF IsInf(a) THEN FALSE
    ELSE IF IsInf(b) THEN TRUE
    ELSE IF a.m = 0 THEN b.m > 0
    ELSE IF b.m = 0 THEN FALSE
    ELSE IF Digits(a.m) + a.e # Digits(b.m) + b.e
         THEN Digits(a.m) + a.e < Digits(b.m) + b.e
    ELSE LET k == IF a.e < b.e THEN a.e ELSE b.e
         IN a.m * Pow10(a.e - k) < b.m * Pow10(b.e - k)

\* the larger of the two instead of the smaller
min_takes_larger(a, b) == IF Less(b, a) THEN a ELSE b

\* Python's min(a, b): the first argument unless the second is smaller
min(a, b) == IF Less(b, a) THEN b ELSE a

\* dict.get(key, default)
DictGet(d, key, default) == IF key \in DOMAIN d THEN d[key] ELSE default

\* ---------------------------------------------------------- unit tables
_MICROSECOND_UNITS ==
    [s |-> Num(1, 6), ms |-> Num(1, 3), us |-> Num(1, 0), ns |-> Num(1, -3)]
        @@ ("µs" :> Num(1, 0))

\* the nanosecond table filled with the microsecond factors
_NANOSECOND_UNITS_as_microseconds ==
    [s |-> Num(1, 6), ms |-> Num(1, 3), us |-> Num(1, 0), ns |-> Num(1, -3)]
        @@ ("µs" :> Num(1, 0))

_NANOSECOND_UNITS ==
    [s |-> Num(1, 9), ms |-> Num(1, 6), us |-> Num(1, 3), ns |-> Num(1, 0)]
        @@ ("µs" :> Num(1, 3))

_GHZ_UNITS ==
    [Hz |-> Num(1, -9), KHz |-> Num(1, -6), MHz |-> Num(1, -3),
     GHz |-> Num(1, 0), THz |-> Num(1, 3)]

\* the module namespace the functions read their tables from at call time
ModuleGlobals ==
    [_MICROSECOND_UNITS |-> _MICROSECOND_UNITS,
     _NANOSECOND_UNITS |-> _NANOSECOND_UNITS,
     _GHZ_UNITS |-> _GHZ_UNITS]

\* ---------------------------------------------------------- item lookup
\* filtered = [item for item in lst if item.name == name]
Filtered(lst, name) == SelectSeq(lst, LAMBDA item : item.name = name)

\* the last match instead of the first
_check_for_item_last(lst, name) ==
    IF Filtered(lst, name) = <<>> THEN None
    ELSE Filtered(lst, name)[Len(Filtered(lst, name))]

_check_for_item(lst, name) ==
    IF Filtered(lst, name) = <<>> THEN None ELSE Filtered(lst, name)[1]

\* ---------------------------------------------------------- loop bodies
\* one iteration of the loop of gate_param_values
gate_param_body(gate, g) ==
    LET name == gate.gate
        qubits == gate.qubits
        time_param == _check_for_item(gate.parameters, "gate_length")
        gate_length ==
            IF hasattr(time_param, "value")
            THEN IF hasattr(time_param, "unit")
                 THEN Mul(time_param.value,
                          DictGet(g._NANOSECOND_UNITS, time_param.unit, Num(1, 0)))
                 ELSE time_param.value
            ELSE None
        error_param == _check_for_item(gate.parameters, "gate_error")
        gate_error ==
            IF hasattr(error_param, "value") THEN error_param.value ELSE None
    IN <<name, qubits, gate_length, gate_error>>

\* a found parameter without a value reported as 0 instead of None
gate_error_body_zero_default(gate, g) ==
    LET name == gate.gate
        qubits == gate.qubits
        params == _check_for_item(gate.parameters, "gate_error")
        value == IF params = None THEN None
                 ELSE IF hasattr(params, "value") THEN params.value ELSE Num(0, 0)
    IN <<name, qubits, value>>

\* one iteration of the loop of gate_error_values
gate_error_body(gate, g) ==
    LET name == gate.gate
        qubits == gate.qubits
        params == _check_for_item(gate.parameters, "gate_error")
        value == IF hasattr(params, "value") THEN params.value ELSE None
    IN <<name, qubits, value>>

\* the unit conversion left out
gate_length_body_unscaled(gate, g) ==
    LET name == gate.gate
        qubits == gate.qubits
        params == _check_for_item(gate.parameters, "gate_length")
        value == IF hasattr(params, "value") THEN params.value ELSE None
    IN <<name, qubits, value>>

\* one iteration of the loop of gate_length_values
gate_length_body(gate, g) ==
    LET name == gate.gate
        qubits == gate.qubits
        params == _check_for_item(gate.parameters, "gate_length")
        value ==
            IF hasattr(params, "value")
            THEN IF hasattr(params, "unit")
                 THEN Mul(params.value,
                          DictGet(g._NANOSECOND_UNITS, params.unit, Num(1, 0)))
                 ELSE params.value
            ELSE None
    IN <<name, qubits, value>>

\* one iteration of the loop of readout_error_values
readout_error_body(qubit_props, g) ==
    LET params == _check_for_item(qubit_props, "readout_error")
    IN IF hasattr(params, "value") THEN params.value ELSE None

\* thermal_relaxation_values, the T1 of one qubit in microseconds
thermal_t1(qubit_props, g) ==
    LET t1_params == _check_for_item(qubit_props, "T1")
    IN IF hasattr(t1_params, "value")
       THEN IF hasattr(t1_params, "unit")
            THEN Mul(t1_params.value,
                     DictGet(g._MICROSECOND_UNITS, t1_params.unit, Num(1, 0)))
            ELSE t1_params.value
       ELSE inf

\* thermal_relaxation_values, the T2 of one qubit before the truncation
thermal_t2(qubit_props, g) ==
    LET t2_params == _check_for_item(qubit_props, "T2")
    IN IF hasattr(t2_params, "value")
       THEN IF hasattr(t2_params, "unit")
            THEN Mul(t2_params.value,
                     DictGet(g._MICROSECOND_UNITS, t2_params.unit, Num(1, 0)))
            ELSE t2_params.value
       ELSE inf

\* a frequency default of None, as in the other extractors
thermal_freq_default_none(qubit_props, g) ==
    LET t2_params == _check_for_item(qubit_props, "T2")
        freq_params == _check_for_item(qubit_props, "frequency")
    IN IF hasattr(t2_params, "value")
       THEN IF ~hasattr(freq_params, "value") THEN AttributeError
            ELSE IF hasattr(freq_params, "unit")
            THEN Mul(freq_params.value,
                     DictGet(g._GHZ_UNITS, freq_params.unit, Num(1, 0)))
            ELSE freq_params.value
       ELSE None

\* thermal_relaxation_values, the frequency of one qubit: it is loaded under
\* the test of t2_params, and reading freq_params.value of an object without
\* that attribute raises AttributeError
thermal_freq(qubit_props, g) ==
    LET t2_params == _check_for_item(qubit_props, "T2")
        freq_params == _check_for_item(qubit_props, "frequency")
    IN IF hasattr(t2_params, "value")
       THEN IF ~hasattr(freq_params, "value") THEN AttributeError
            ELSE IF hasattr(freq_params, "unit")
            THEN Mul(freq_params.value,
                     DictGet(g._GHZ_UNITS, freq_params.unit, Num(1, 0)))
            ELSE freq_params.value
       ELSE inf

\* one iteration of the loop of thermal_relaxation_values
thermal_relaxation_body(qubit_props, g) ==
    LET t1 == thermal_t1(qubit_props, g)
        t2 == thermal_t2(qubit_props, g)
        freq == thermal_freq(qubit_props, g)
    IN IF freq = AttributeError THEN AttributeError
       ELSE <<t1, min(Mul(Num(2, 0), t1), t2), freq>>

\* ------------------------------------------------------ whole functions
Functions ==
    {"gate_param_values", "gate_error_values", "gate_length_values",
     "readout_error_values", "thermal_relaxation_values"}

\* the list a function iterates over
Input(fn, props) ==
    IF fn \in {"gate_param_values", "gate_error_values", "gate_length_values"}
    THEN props.gates ELSE props.qubits

\* the loop body of a function applied to one record
Body(fn, rec, g) ==
    CASE fn = "gate_param_values" -> gate_param_body(rec, g)
      [] fn = "gate_error_values" -> gate_error_body(rec, g)
      [] fn = "gate_length_values" -> gate_length_body(rec, g)
      [] fn = "readout_error_values" -> readout_error_body(rec, g)
      [] fn = "thermal_relaxation_values" -> thermal_relaxation_body(rec, g)

\* what a call hands to its caller: the returned list, or the exception
Returns(values) == [exception |-> "", values |-> values]
Raises(exception) == [exception |-> exception, values |-> <<>>]

\* a whole call run alone: the list of the bodies' results, or the exception
\* of the first iteration that raises
Run(fn, props, g) ==
    LET lst == Input(fn, props)
        outs == [i \in 1..Len(lst) |-> Body(fn, lst[i], g)]
    IN IF \E i \in 1..Len(lst) : outs[i] = AttributeError
       THEN Raises("AttributeError") ELSE Returns(outs)

gate_param_values(props, g) == Run("gate_param_values", props, g)
gate_error_values(props, g) == Run("gate_error_values", props, g)
gate_length_values(props, g) == Run("gate_length_values", props, g)
readout_error_values(props, g) == Run("readout_error_values", props, g)
thermal_relaxation_values(props, g) == Run("thermal_relaxation_values", props, g)

\* ------------------------------------------------------------- reports
\* a parameter record with a value and a unit, with a value only, with a
\* unit only, and with a name only
PVU(name, value, unit) == [name |-> name, value |-> value, unit |-> unit]
PV(name, value) == [name |-> name, value |-> value]
PU(name, unit) == [name |-> name, unit |-> unit]
PN(name) == [name |-> name]

Gate(name, qubits, parameters) ==
    [gate |-> name, qubits |-> qubits, parameters |-> parameters]

GateRecords ==
    { Gate("u1", <<0>>, <<>>),
      Gate("u2", <<0>>, <<PVU("gate_length", Num(3, 0), "ms"),
                          PV("gate_error", Num(1, -2))>>),
      Gate("u3", <<1>>, <<PV("gate_error", Num(2, -2)),
                          PVU("gate_length", Num(35, 0), "ns")>>),
      Gate("cx", <<0, 1>>, <<PV("other", Num(9, 0)),
                             PV("gate_length", Num(3, 0))>>),
      Gate("cx", <<1, 0>>, <<PVU("gate_length", Num(3, 0), "furlongs"),
                             PN("gate_error")>>),
      Gate("id", <<0>>, <<PU("gate_length", "ns"),
                          PVU("gate_length", Num(3, 0), "ms"),
                          PN("gate_error"),
                          PV("gate_error", Num(1, -2))>>),
      Gate("id", <<1>>, <<PVU("gate_length", Num(3, 0), "ms"),
                          PVU("gate_length", Num(7, 0), "ns"),
                          PV("gate_error", Num(1, -2)),
                          PV("gate_error", Num(2, -2))>>),
      Gate("u2", <<1>>, <<PVU("gate_length", Num(2, 0), "s"),
                          PN("gate_length"),
                          PN("gate_error")>>) }

QubitRecords ==
    { <<>>,
      <<PVU("T1", Num(50, 0), "us")>>,
      <<PVU("T1", Num(100, 0), "µs"), PVU("T2", Num(250, 0), "µs"),
        PVU("frequency", Num(5000, 0), "MHz"),
        PV("readout_error", Num(2, -2))>>,
      <<PVU("frequency", Num(5000, 0), "MHz"),
        PV("readout_error", Num(5, -2))>>,
      <<PVU("T2", Num(250, 0), "us")>>,
      <<PV("T2", Num(30, 0)), PVU("frequency", Num(5, 0), "furlongs")>>,
      <<PU("T1", "us"), PVU("T1", Num(50, 0), "us"),
        PN("readout_error"), PV("readout_error", Num(2, -2))>>,
      <<PVU("T1", Num(1, 0), "ms"), PVU("T1", Num(2, 0), "ms"),
        PVU("T2", Num(200, 0), "ns"), PVU("T2", Num(1, 0), "s"),
        PVU("frequency", Num(5, 0), "GHz"), PVU("frequency", Num(6, 0), "GHz"),
        PV("readout_error", Num(2, -2)), PV("readout_error", Num(5, -2))>>,
      <<PVU("T1", Num(50, 0), "us"), PU("T2", "us"),
        PVU("frequency", Num(5000, 0), "MHz")>>,
      <<PVU("T2", Num(250, 0), "us"), PN("frequency")>> }

\* every sequence over S of length at most n
SeqsUpTo(S, n) == UNION {[1..k -> S] : k \in 0..n}

BaseGates ==
    <<Gate("u2", <<0>>, <<PVU("gate_length", Num(3, 0), "ms"),
                          PV("gate_error", Num(1, -2))>>)>>

BaseQubits ==
    << <<PVU("T1", Num(100, 0), "µs"), PVU("T2", Num(250, 0), "µs"),
         PVU("frequency", Num(5000, 0), "MHz"),
         PV("readout_error", Num(2, -2))>> >>

\* the reports the backend may hand over
Reports ==
    {[gates |-> gs, qubits |-> BaseQubits] : gs \in SeqsUpTo(GateRecords, MaxGates)}
    \cup
    {[gates |-> BaseGates, qubits |-> qs] : qs \in SeqsUpTo(QubitRecords, MaxQubits)}

\* -------------------------------------------------------------- callers
Callers == {"c1", "c2"}

Idle == [fn |-> "none", status |-> "idle", i |-> 0, values |-> <<>>]

Init ==
    /\ properties \in Reports
    /\ module_globals = ModuleGlobals
    /\ calls = [c \in Callers |-> Idle]

\* a caller enters one of the five functions: values = []
Call(c) ==
    /\ calls[c].status = "idle"
    /\ \E fn \in Functions :
           calls' = [calls EXCEPT ![c] =
                        [fn |-> fn, status |-> "running", i |-> 1, values |-> <<>>]]
    /\ UNCHANGED <<properties, module_globals>>

\* the result inserted at the front of values instead of appended
Step_prepend(c) ==
    /\ calls[c].status = "running"
    /\ calls[c].i <= Len(Input(calls[c].fn, properties))
    /\ LET out == Body(calls[c].fn,
                       Input(calls[c].fn, properties)[calls[c].i],
                       module_globals)
       IN IF out = AttributeError
          THEN calls' = [calls EXCEPT ![c].status = "raised",
                                      ![c].values = <<>>]
          ELSE calls' = [calls EXCEPT ![c].values = <<out>> \o @,
                                      ![c].i = @ + 1]
    /\ UNCHANGED <<properties, module_globals>>

\* the scale factor read with setdefault instead of get: a unit the
\* nanosecond table does not know is entered into the module's table
Step_setdefault(c) ==
    /\ calls[c].status = "running"
    /\ calls[c].i <= Len(Input(calls[c].fn, properties))
    /\ LET rec == Input(calls[c].fn, properties)[calls[c].i]
           out == Body(calls[c].fn, rec, module_globals)
           param == IF calls[c].fn \in {"gate_length_values", "gate_param_values"}
                    THEN _check_for_item(rec.parameters, "gate_length")
                    ELSE None
       IN /\ IF out = AttributeError
             THEN calls' = [calls EXCEPT ![c].status = "raised",
                                         ![c].values = <<>>]
             ELSE calls' = [calls EXCEPT ![c].values = Append(@, out),
                                         ![c].i = @ + 1]
          /\ module_globals' =
                 IF hasattr(param, "value") /\ hasattr(param, "unit")
                    /\ param.unit \notin DOMAIN module_globals._NANOSECOND_UNITS
                 THEN [module_globals EXCEPT !._NANOSECOND_UNITS =
                          @ @@ (param.unit :> Num(1, 0))]
                 ELSE module_globals
    /\ UNCHANGED properties

\* one iteration of the function's loop: append the record's result, or
\* leave the function with the exception the iteration raises
Step(c) ==
    /\ calls[c].status = "running"
    /\ calls[c].i <= Len(Input(calls[c].fn, properties))
    /\ LET out == Body(calls[c].fn,
                       Input(calls[c].fn, properties)[calls[c].i],
                       module_globals)
       IN IF out = AttributeError
          THEN calls' = [calls EXCEPT ![c].status = "raised",
                                      ![c].values = <<>>]
          ELSE calls' = [calls EXCEPT ![c].values = Append(@, out),
                                      ![c].i = @ + 1]
    /\ UNCHANGED <<properties, module_globals>>

\* the loop is exhausted: return values
Return(c) ==
    /\ calls[c].status = "running"
    /\ calls[c].i > Len(Input(calls[c].fn, properties))
    /\ calls' = [calls EXCEPT ![c].status = "returned"]
    /\ UNCHANGED <<properties, module_globals>>

\* the caller has taken the result (or the exception) and may call again
Collect(c) ==
    /\ calls[c].status \in {"returned", "raised"}
    /\ calls' = [calls EXCEPT ![c] = Idle]
    /\ UNCHANGED <<properties, module_globals>>

Next == \E c \in Callers : Call(c) \/ Step(c) \/ Return(c) \/ Collect(c)

Spec == Init /\ [][Next]_vars

\* what a finished call handed to its caller
Finished(c) == calls[c].status \in {"returned", "raised"}
Outcome(c) ==
    IF calls[c].status = "raised"
    THEN Raises("AttributeError") ELSE Returns(calls[c].values)

\* ======================================================================
\* Properties
\* ======================================================================
\* vocabulary of the statements below: the first entry of a record that
\* carries a name, and a value scaled by a table's factor for its unit
HasNamed(lst, name) == \E k \in 1..Len(lst) : lst[k].name = name

FirstIndex(lst, name) ==
    CHOOSE k \in 1..Len(lst) :
        lst[k].name = name /\ \A j \in 1..(k - 1) : lst[j].name # name

FirstEntry(lst, name) == lst[FirstIndex(lst, name)]

HasValued(lst, name) ==
    HasNamed(lst, name) /\ "value" \in DOMAIN FirstEntry(lst, name)

Scaled(p, table) ==
    IF "unit" \in DOMAIN p /\ p.unit \in DOMAIN table
    THEN Mul(p.value, table[p.unit]) ELSE p.value

\* a call that has produced tuples: running or returned
Producing(c, fn) ==
    calls[c].fn = fn /\ calls[c].status \in {"running", "returned"}

\* ---------------------------------------------------------------- C1
ExpectedFrequency(q) ==
    IF HasValued(q, "frequency")
    THEN Scaled(FirstEntry(q, "frequency"), _GHZ_UNITS) ELSE inf

\* C1: every frequency thermal_relaxation_values returns is the qubit's first
\* 'frequency' value times the gigahertz factor of its unit (infinity when
\* that parameter is missing or has no value), whatever T1 and T2 are.
C1_FrequencyIndependentOfT1T2 ==
    \A c \in Callers :
        (calls[c].fn = "thermal_relaxation_values" /\ calls[c].status = "returned")
        => \A i \in 1..Len(calls[c].values) :
               calls[c].values[i][3] = ExpectedFrequency(properties.qubits[i])

\* ---------------------------------------------------------------- C2
\* C2: no extraction function raises on a structurally valid report: no call
\* ever ends with an exception.
C2_NoExtractionRaises ==
    \A c \in Callers : calls[c].status # "raised"

\* ---------------------------------------------------------------- C3
ExpectedT2(q) ==
    IF HasValued(q, "T2")
    THEN Scaled(FirstEntry(q, "T2"), _MICROSECOND_UNITS) ELSE inf

\* C3: every tuple (T1, T2, freq) thermal_relaxation_values produces has
\* T2 <= 2*T1 and T2 = min(2*T1, T2') with T2' the scaled T2 value or infinity;
\* a finite T1 without T2 gives T2 = 2*T1, and a missing T1 keeps T2'.
C3_T2ClampedToTwiceT1 ==
    \A c \in Callers :
        Producing(c, "thermal_relaxation_values")
        => \A i \in 1..Len(calls[c].values) :
               LET t == calls[c].values[i]
                   q == properties.qubits[i]
                   twoT1 == Mul(Num(2, 0), t[1])
               IN /\ ~Less(twoT1, t[2])
                  /\ ~Less(ExpectedT2(q), t[2])
                  /\ t[2] \in {twoT1, ExpectedT2(q)}
                  /\ (~HasNamed(q, "T2") /\ ~IsInf(t[1])) => t[2] = twoT1
                  /\ ~HasNamed(q, "T1") => t[2] = ExpectedT2(q)

\* a returned call holding (50, 100, _) for T1 = 50 us without T2, and a
\* tuple of a qubit without T1 that keeps its T2 = 30
C3_Witness ==
    \E c \in Callers :
        /\ calls[c].fn = "thermal_relaxation_values"
        /\ calls[c].status = "returned"
        /\ \E i \in 1..Len(calls[c].values) :
               /\ ~HasNamed(properties.qubits[i], "T2")
               /\ calls[c].values[i][1] = Num(50, 0)
               /\ calls[c].values[i][2] = Num(100, 0)
        /\ \E i \in 1..Len(calls[c].values) :
               /\ ~HasNamed(properties.qubits[i], "T1")
               /\ calls[c].values[i][2] = Num(30, 0)

\* --------------------------------------------------------------- C10
NoThermalParams(q) ==
    ~HasNamed(q, "T1") /\ ~HasNamed(q, "T2") /\ ~HasNamed(q, "frequency")

\* C10: a qubit record with no 'T1', no 'T2' and no 'frequency' parameter
\* yields (inf, inf, inf), never the absence marker.
C10_NoThermalParamsGivesInfinity ==
    \A c \in Callers :
        Producing(c, "thermal_relaxation_values")
        => \A i \in 1..Len(calls[c].values) :
               NoThermalParams(properties.qubits[i])
               => calls[c].values[i] = <<[inf |-> TRUE], [inf |-> TRUE], [inf |-> TRUE]>>

C10_Witness ==
    \E c \in Callers :
        /\ calls[c].fn = "thermal_relaxation_values"
        /\ calls[c].status = "returned"
        /\ \E i \in 1..Len(calls[c].values) :
               /\ NoThermalParams(properties.qubits[i])
               /\ calls[c].values[i][3] = [inf |-> TRUE]

\* ---------------------------------------------------------------- C7
\* C7: for a gate whose first 'gate_length' parameter has a value, the
\* duration returned by gate_length_values and gate_param_values is
\* value * 1e6 for unit 'ms', the value itself for unit 'ns', for no unit and
\* for a unit the nanosecond table does not hold; a gate without a
\* 'gate_length' parameter gets the absence marker; neither function raises.
C7_GateLengthInNanoseconds ==
    \A c \in Callers :
        calls[c].fn \in {"gate_length_values", "gate_param_values"}
        => /\ calls[c].status # "raised"
           /\ \A i \in 1..Len(calls[c].values) :
                  LET ps == properties.gates[i].parameters
                      d == calls[c].values[i][3]
                      p == FirstEntry(ps, "gate_length")
                  IN /\ ~HasNamed(ps, "gate_length") => d = None
                     /\ HasValued(ps, "gate_length") =>
                            /\ ("unit" \in DOMAIN p /\ p.unit = "ms")
                                   => d = Mul(p.value, Num(1, 6))
                            /\ ("unit" \in DOMAIN p /\ p.unit = "ns")
                                   => d = p.value
                            /\ "unit" \notin DOMAIN p => d = p.value
                            /\ ("unit" \in DOMAIN p
                                /\ p.unit \notin {"s", "ms", "µs", "us", "ns"})
                                   => d = p.value

\* a returned gate_length_values holding 3 ms as 3e6 ns and 3 furlongs as 3
C7_Witness ==
    \E c \in Callers :
        /\ calls[c].fn = "gate_length_values"
        /\ calls[c].status = "returned"
        /\ \E i \in 1..Len(calls[c].values) :
               /\ HasValued(properties.gates[i].parameters, "gate_length")
               /\ FirstEntry(properties.gates[i].parameters, "gate_length")
                      = PVU("gate_length", Num(3, 0), "ms")
               /\ calls[c].values[i][3] = Num(3, 6)
        /\ \E i \in 1..Len(calls[c].values) :
               /\ HasValued(properties.gates[i].parameters, "gate_length")
               /\ FirstEntry(properties.gates[i].parameters, "gate_length")
                      = PVU("gate_length", Num(3, 0), "furlongs")
               /\ calls[c].values[i][3] = Num(3, 0)

\* ---------------------------------------------------------------- C5
\* C5: gate_param_values returns, at each position, (name, qubits, duration,
\* error) with (name, qubits, duration) the element of gate_length_values and
\* (name, qubits, error) the element of gate_error_values at that position
\* on the same report; the three outputs have the same length.
C5_GateParamCombinesLengthAndError ==
    \A c \in Callers :
        (calls[c].fn = "gate_param_values" /\ calls[c].status = "returned")
        => LET lengths == gate_length_values(properties, module_globals)
               errors == gate_error_values(properties, module_globals)
           IN /\ lengths.exception = ""
              /\ errors.exception = ""
              /\ Len(calls[c].values) = Len(lengths.values)
              /\ Len(calls[c].values) = Len(errors.values)
              /\ \A i \in 1..Len(calls[c].values) :
                     /\ <<calls[c].values[i][1], calls[c].values[i][2],
                          calls[c].values[i][3]>> = lengths.values[i]
                     /\ <<calls[c].values[i][1], calls[c].values[i][2],
                          calls[c].values[i][4]>> = errors.values[i]

\* a returned gate_param_values over two gates, one with a scaled duration
\* and an error
C5_Witness ==
    \E c \in Callers :
        /\ calls[c].fn = "gate_param_values"
        /\ calls[c].status = "returned"
        /\ Len(calls[c].values) = 2
        /\ calls[c].values[1] # calls[c].values[2]
        /\ \E i \in 1..2 : /\ calls[c].values[i][3] = Num(3, 6)
                           /\ calls[c].values[i][4] = Num(1, -2)

\* ---------------------------------------------------------------- C8
LookedUpNames ==
    {"gate_length", "gate_error", "readout_error", "T1", "T2", "frequency"}

\* the parameter sequence the next iteration of a running call searches
Searched(c) ==
    LET rec == Input(calls[c].fn, properties)[calls[c].i]
    IN IF calls[c].fn \in {"readout_error_values", "thermal_relaxation_values"}
       THEN rec ELSE rec.parameters

\* a parameter sequence without the entries whose name occurred before
RECURSIVE KeepFirst(_)
KeepFirst(lst) ==
    IF lst = <<>> THEN <<>>
    ELSE LET front == KeepFirst(SubSeq(lst, 1, Len(lst) - 1))
             last == lst[Len(lst)]
         IN IF HasNamed(front, last.name) THEN front ELSE Append(front, last)

WithoutLaterDuplicates(props) ==
    [gates |-> [i \in 1..Len(props.gates) |->
                   [props.gates[i] EXCEPT !.parameters = KeepFirst(@)]],
     qubits |-> [i \in 1..Len(props.qubits) |-> KeepFirst(props.qubits[i])]]

\* C8: on the parameter sequence an iteration searches, _check_for_item
\* returns the first record whose name is the target, or None when none
\* matches; records that repeat a name further on never affect what an
\* extractor hands back.
C8_FirstMatchOnly ==
    /\ \A c \in Callers :
           (calls[c].status = "running"
            /\ calls[c].i <= Len(Input(calls[c].fn, properties)))
           => \A name \in LookedUpNames :
                  _check_for_item(Searched(c), name) =
                      IF HasNamed(Searched(c), name)
                      THEN FirstEntry(Searched(c), name) ELSE None
    /\ \A c \in Callers :
           Finished(c)
           => Outcome(c) = Run(calls[c].fn, WithoutLaterDuplicates(properties),
                               module_globals)

\* a returned thermal_relaxation_values on a qubit that lists T1 twice with
\* two values, whose T1 is that of the first
C8_Witness ==
    \E c \in Callers :
        /\ calls[c].fn = "thermal_relaxation_values"
        /\ calls[c].status = "returned"
        /\ \E i \in 1..Len(calls[c].values) :
               LET q == properties.qubits[i]
               IN /\ \E j, k \in 1..Len(q) :
                         /\ j < k
                         /\ q[j] = PVU("T1", Num(1, 0), "ms")
                         /\ q[k] = PVU("T1", Num(2, 0), "ms")
                  /\ calls[c].values[i][1] = Num(1, 3)

\* ---------------------------------------------------------------- C9
ListFunctions ==
    {"readout_error_values", "gate_error_values", "gate_length_values",
     "gate_param_values"}

\* the report cut down to record i of the list fn iterates over
OnlyRecord(fn, props, i) ==
    IF fn = "readout_error_values"
    THEN [props EXCEPT !.qubits = <<props.qubits[i]>>]
    ELSE [props EXCEPT !.gates = <<props.gates[i]>>]

\* C9: readout_error_values, gate_error_values, gate_length_values and
\* gate_param_values never raise and return as many elements as the input
\* list has records, element i being what record i alone yields: the order of
\* the input is kept, a repeated record appears as often as it is listed, and
\* a record without the parameter has the absence marker at its position.
C9_OneElementPerRecordInOrder ==
    \A c \in Callers :
        calls[c].fn \in ListFunctions
        => LET fn == calls[c].fn
               lst == Input(fn, properties)
           IN /\ calls[c].status # "raised"
              /\ calls[c].status = "returned" => Len(calls[c].values) = Len(lst)
              /\ calls[c].status = "running" => Len(calls[c].values) = calls[c].i - 1
              /\ \A i \in 1..Len(calls[c].values) :
                     /\ Returns(<<calls[c].values[i]>>)
                            = Run(fn, OnlyRecord(fn, properties, i), module_globals)
                     /\ (fn = "readout_error_values"
                         /\ ~HasNamed(lst[i], "readout_error"))
                            => calls[c].values[i] = None
                     /\ (fn = "gate_error_values"
                         /\ ~HasNamed(lst[i].parameters, "gate_error"))
                            => calls[c].values[i][3] = None

\* a returned readout_error_values over two qubits of which only the second
\* reports a readout error
C9_Witness ==
    \E c \in Callers :
        /\ calls[c].fn = "readout_error_values"
        /\ calls[c].status = "returned"
        /\ Len(properties.qubits) = 2
        /\ ~HasNamed(properties.qubits[1], "readout_error")
        /\ calls[c].values = <<None, Num(5, -2)>>

\* ---------------------------------------------------------------- C4
\* the parameter sequence of record i of a part ("gates" or "qubits") of the
\* report, and the report with that sequence replaced
ParamsOf(props, part, i) ==
    IF part = "gates" THEN props.gates[i].parameters ELSE props.qubits[i]

WithParams(props, part, i, ps) ==
    IF part = "gates" THEN [props EXCEPT !.gates[i].parameters = ps]
    ELSE [props EXCEPT !.qubits[i] = ps]

RemoveAt(lst, k) == SubSeq(lst, 1, k - 1) \o SubSeq(lst, k + 1, Len(lst))

RemoveNamed(lst, name) == SelectSeq(lst, LAMBDA e : e.name # name)

\* the entries <<part, i, k>> of the report
Entries(props) ==
    UNION {{<<"gates", i, k>> : k \in 1..Len(props.gates[i].parameters)} :
              i \in 1..Len(props.gates)}
    \cup
    UNION {{<<"qubits", i, k>> : k \in 1..Len(props.qubits[i])} :
              i \in 1..Len(props.qubits)}

\* those of them that have no value
ValuelessEntries(props) ==
    {e \in Entries(props) :
        "value" \notin DOMAIN ParamsOf(props, e[1], e[2])[e[3]]}

\* entry k is the first of its name and the next entry of that name has a value
HidesValue(ps, k) ==
    /\ \A j \in 1..(k - 1) : ps[j].name # ps[k].name
    /\ \E j \in (k + 1)..Len(ps) :
           /\ ps[j].name = ps[k].name
           /\ "value" \in DOMAIN ps[j]
           /\ \A h \in (k + 1)..(j - 1) : ps[h].name # ps[k].name

\* C4 as stated: what a call hands back equals what it hands back on the
\* report with any one value-less entry removed, further entries of the same
\* name or not.
C4_ValuelessSameAsRemoved ==
    \A c \in Callers :
        Finished(c)
        => \A e \in ValuelessEntries(properties) :
               LET ps == ParamsOf(properties, e[1], e[2])
               IN Outcome(c) =
                      Run(calls[c].fn,
                          WithParams(properties, e[1], e[2], RemoveAt(ps, e[3])),
                          module_globals)

\* C4 amended: what a call hands back equals what it hands back on the report
\* with a value-less entry removed, except when that entry is the first of
\* its name and the next entry of that name has a value; then it equals what
\* the call hands back with every entry of that name removed from the record.
C4_ValuelessSameAsRemovedUnlessItHidesAValue ==
    \A c \in Callers :
        Finished(c)
        => \A e \in ValuelessEntries(properties) :
               LET ps == ParamsOf(properties, e[1], e[2])
               IN Outcome(c) =
                      Run(calls[c].fn,
                          WithParams(properties, e[1], e[2],
                                     IF HidesValue(ps, e[3])
                                     THEN RemoveNamed(ps, ps[e[3]].name)
                                     ELSE RemoveAt(ps, e[3])),
                          module_globals)

\* a returned gate_error_values on a gate whose only 'gate_error' entry has
\* no value, and a returned one on a gate whose value-less first entry hides
\* a valued one: both hold the absence marker
C4_Witness ==
    \E c \in Callers :
        /\ calls[c].fn = "gate_error_values"
        /\ calls[c].status = "returned"
        /\ \E i \in 1..Len(calls[c].values) :
               LET ps == properties.gates[i].parameters
               IN /\ \E k \in 1..Len(ps) :
                         /\ ps[k] = PN("gate_error")
                         /\ ~HidesValue(ps, k)
                  /\ calls[c].values[i][3] = None
        /\ \E i \in 1..Len(calls[c].values) :
               LET ps == properties.gates[i].parameters
               IN /\ \E k \in 1..Len(ps) :
                         /\ ps[k] = PN("gate_error")
                         /\ HidesValue(ps, k)
                  /\ calls[c].values[i][3] = None

\* ---------------------------------------------------------------- C6
\* C6: calls of the extraction functions interleaved in any order on one
\* report change neither the report nor the module's unit tables, and each
\* hands back what it hands back when run alone on that report.
C6_ConcurrentCallsIndependent ==
    /\ [](/\ module_globals = ModuleGlobals
          /\ \A c \in Callers :
                 Finished(c)
                 => Outcome(c) = Run(calls[c].fn, properties, ModuleGlobals))
    /\ [][properties' = properties /\ module_globals' = module_globals]_vars

\* one call has returned two elements while another call, of a different
\* function, is in the middle of its loop
C6_Witness ==
    \E c, d \in Callers :
        /\ c # d
        /\ calls[c].status = "returned"
        /\ Len(calls[c].values) = 2
        /\ calls[d].status = "running"
        /\ calls[d].i = 2
        /\ calls[d].fn # calls[c].fn
        /\ module_globals = ModuleGlobals

====
